---- MODULE Spec2Model ----
(***************************************************************************)
(* Model of the GTFS bus stop-sequence library:                            *)
(*   src/src/lib/line_string_util.py  (cut, segment_by_distances)          *)
(*   src/src/lib/gtfs_sequence.py     (most_common, class Sequence)        *)
(*                                                                         *)
(* Geometry.  Coordinates are (x, y) tuples and every modelled input lies  *)
(* on the latitude y = 0 with integer x, so that every length, projection  *)
(* and interpolation the code computes is an exact integer.  A curve that  *)
(* reverses its direction of travel on that line is a curve that revisits  *)
(* earlier positions.                                                      *)
(***************************************************************************)
EXTENDS Integers, Sequences, FiniteSets, TLC

(***************************************************************************)
(* Bounds of the model.                                                    *)
(***************************************************************************)
MaxX == 4
MaxVerts == 3
MaxList == 4
MaxOffsets == 3
MaxStops == 3
MaxTrimStops == 2
MaxTimedStops == 2
MaxRows == 2

(***************************************************************************)
(* Program constant: the degrees-to-metres factor 0.11 / 0.000001.         *)
(***************************************************************************)
DEG_TO_M == 110000

Abs(n) == IF n < 0 THEN -n ELSE n
Min(a, b) == IF a < b THEN a ELSE b
Max(a, b) == IF a < b THEN b ELSE a

Last(s) == s[Len(s)]

(***************************************************************************)
(* shapely Point(x, y) and Point.distance.  The distance is the Euclidean  *)
(* one, which for two points sharing a coordinate is |dx| + |dy|.          *)
(***************************************************************************)
Point(x, y) == [x |-> x, y |-> y]
PointOfCoord(c) == Point(c[1], c[2])
CoordDist(a, b) == Abs(a[1] - b[1]) + Abs(a[2] - b[2])
PointDistance(p, q) == Abs(p.x - q.x) + Abs(p.y - q.y)

(***************************************************************************)
(* LineString: a sequence of coordinate tuples.                            *)
(***************************************************************************)
RECURSIVE LineLength(_)
LineLength(line) ==
    IF Len(line) < 2 THEN 0
    ELSE CoordDist(line[1], line[2]) + LineLength(Tail(line))

\* Arc length at which vertex i (1-based) of the line lies.
VertexArc(line, i) == LineLength(SubSeq(line, 1, i))

\* Distance from coordinate c to the segment a-b (all on one latitude).
SegDistance(a, b, c) ==
    LET lo == Min(a[1], b[1])
        hi == Max(a[1], b[1])
    IN  (IF c[1] < lo THEN lo - c[1] ELSE IF c[1] > hi THEN c[1] - hi ELSE 0)
        + Abs(c[2] - a[2])

\* Offset along the segment a-b of its point nearest to c.
SegNearestOffset(a, b, c) ==
    LET lo == Min(a[1], b[1])
        hi == Max(a[1], b[1])
        q  == IF c[1] < lo THEN lo ELSE IF c[1] > hi THEN hi ELSE c[1]
    IN  Abs(q - a[1])

(***************************************************************************)
(* LineString.project: the arc length of the point of the line nearest to  *)
(* c.  The segments are scanned in order and a later segment replaces the  *)
(* best one only when strictly nearer, so of several nearest points the    *)
(* one of smallest arc length is taken.                                    *)
(***************************************************************************)
RECURSIVE ProjectScan(_, _, _, _, _)
ProjectScan(line, c, k, best, bestDist) ==
    IF k >= Len(line) THEN best
    ELSE LET d == SegDistance(line[k], line[k + 1], c)
             m == VertexArc(line, k) + SegNearestOffset(line[k], line[k + 1], c)
         IN  IF bestDist < 0 \/ d < bestDist
             THEN ProjectScan(line, c, k + 1, m, d)
             ELSE ProjectScan(line, c, k + 1, best, bestDist)

Project(line, c) == ProjectScan(line, c, 1, 0, -1)

(***************************************************************************)
(* LineString.interpolate for a distance >= 0: the coordinate at that arc  *)
(* length, the end of the line for a distance beyond it.                   *)
(***************************************************************************)
RECURSIVE InterpolateScan(_, _, _)
InterpolateScan(line, d, k) ==
    IF k >= Len(line) THEN Last(line)
    ELSE LET a == line[k]
             b == line[k + 1]
             start == VertexArc(line, k)
             seglen == CoordDist(a, b)
         IN  IF d <= start + seglen
             THEN IF seglen = 0 THEN a
                  ELSE <<a[1] + (IF b[1] >= a[1] THEN d - start ELSE start - d), a[2]>>
             ELSE InterpolateScan(line, d, k + 1)

Interpolate(line, d) ==
    IF d <= 0 THEN line[1] ELSE InterpolateScan(line, d, 1)

(***************************************************************************)
(* The outcome of a call: what it returned, or the exception it raised.    *)
(***************************************************************************)
Returned(v) == [kind |-> "return", val |-> v]
Raised(e) == [kind |-> "raise", val |-> e]
NoneValue == [kind |-> "None", val |-> <<>>]

\* LineString(coords): fewer than two coordinates are rejected.
ValidLineString(coords) == Len(coords) >= 2

(***************************************************************************)
(* line_string_util.cut                                                    *)
(***************************************************************************)
CutParts(before, after) ==
    IF ValidLineString(before) /\ ValidLineString(after)
    THEN Returned(<<before, after>>)
    ELSE Raised("ValueError")

CutExact(coords, i) ==
    CutParts(SubSeq(coords, 1, i), SubSeq(coords, i, Len(coords)))

CutBetween(line, coords, i, distance) ==
    LET split_point == Interpolate(line, distance)
    IN  CutParts(SubSeq(coords, 1, i - 1) \o <<split_point>>,
                 <<split_point>> \o SubSeq(coords, i, Len(coords)))

RECURSIVE CutLoop(_, _, _, _)
CutLoop(line, coords, distance, i) ==
    IF i > Len(coords) THEN NoneValue
    ELSE LET coord_distance == Project(line, coords[i])
         IN  IF coord_distance = distance THEN CutExact(coords, i)
             ELSE IF coord_distance > distance
                  THEN CutBetween(line, coords, i, distance)
                  ELSE CutLoop(line, coords, distance, i + 1)

cut(line, distance) ==
    IF distance <= 0 \/ distance >= LineLength(line)
    THEN Returned(<<line>>)
    ELSE CutLoop(line, line, distance, 1)

(***************************************************************************)
(* line_string_util.segment_by_distances.  The loop state is the line      *)
(* still to be segmented and the three lists built so far.  Offsets are in *)
(* metres; the modelled ones are multiples of DEG_TO_M, so the conversion  *)
(* to curve units is exact.                                                *)
(***************************************************************************)
SegmentsFrame(segments, start_values, end_values) ==
    \* GeoDataFrame(data, geometry): columns of unequal length are rejected.
    IF Len(start_values) = Len(segments) /\ Len(end_values) = Len(segments)
    THEN Returned([geometry |-> segments,
                   start_value |-> start_values,
                   end_value |-> end_values])
    ELSE Raised("ValueError")

\* Mutant: the remainder of the line is not appended after the loop.
SegmentsFinishNoRemainder(current_line, values, segments, start_values, end_values) ==
    IF values = <<>> THEN Raised("IndexError")
    ELSE SegmentsFrame(segments, start_values, end_values)

SegmentsFinish(current_line, values, segments, start_values, end_values) ==
    IF values = <<>> THEN Raised("IndexError")
    ELSE SegmentsFrame(Append(segments, current_line),
                       Append(start_values, Last(values)),
                       Append(end_values, Last(values)))

RECURSIVE SegmentsLoop(_, _, _, _, _, _, _)
SegmentsLoop(current_line, distances, values, i, segments, start_values, end_values) ==
    IF i > Len(distances)
    THEN SegmentsFinish(current_line, values, segments, start_values, end_values)
    ELSE LET segment_distance == distances[i] \div DEG_TO_M
             split_segments == cut(current_line, segment_distance)
             attach == Len(values) = Len(distances)
         IN  IF split_segments.kind = "None" THEN Raised("TypeError")
             ELSE IF split_segments.kind = "raise" THEN split_segments
             ELSE SegmentsLoop(
                    IF Len(split_segments.val) = 2
                        THEN split_segments.val[2] ELSE current_line,
                    distances, values, i + 1,
                    Append(segments, split_segments.val[1]),
                    IF attach THEN Append(start_values, values[i - 1])
                              ELSE start_values,
                    IF attach THEN Append(end_values, values[i])
                              ELSE end_values)

segment_by_distances(line, distances, values) ==
    SegmentsLoop(line, distances, values, 2, <<>>, <<>>, <<>>)

(***************************************************************************)
(* gtfs_sequence.most_common: Counter(list).most_common(1)[0][0].          *)
(* A Counter keeps its keys in the order of their first occurrence, and    *)
(* most_common(1) takes the maximum of the items by count, which is the    *)
(* first item of maximal count in that order.                              *)
(***************************************************************************)
Count(list, v) == Cardinality({i \in 1..Len(list) : list[i] = v})

RECURSIVE CounterKeys(_)
CounterKeys(list) ==
    IF list = <<>> THEN <<>>
    ELSE LET front == SubSeq(list, 1, Len(list) - 1)
             keys == CounterKeys(front)
         IN  IF \E i \in 1..Len(keys) : keys[i] = Last(list)
             THEN keys
             ELSE Append(keys, Last(list))

Counter(list) ==
    LET keys == CounterKeys(list)
    IN  [i \in 1..Len(keys) |-> <<keys[i], Count(list, keys[i])>>]

\* Mutant: a later item replaces the best also when equal.
RECURSIVE MaxByCountLast(_, _, _)
MaxByCountLast(items, i, best) ==
    IF i > Len(items) THEN best
    ELSE MaxByCountLast(items, i + 1,
                        IF items[i][2] >= items[best][2] THEN i ELSE best)

\* max(items, key = count): a later item replaces the best only if greater.
RECURSIVE MaxByCount(_, _, _)
MaxByCount(items, i, best) ==
    IF i > Len(items) THEN best
    ELSE MaxByCount(items, i + 1,
                    IF items[i][2] > items[best][2] THEN i ELSE best)

most_common(list) ==
    LET counts == Counter(list)
    IN  IF counts = <<>> THEN Raised("IndexError")
        ELSE Returned(counts[MaxByCount(counts, 1, 1)][1])

(***************************************************************************)
(* Floats that are quotients: a speed is kept as an exact fraction, the    *)
(* float nan (the mean of no values) as 0/0.                               *)
(***************************************************************************)
RECURSIVE GCD(_, _)
GCD(a, b) == IF b = 0 THEN a ELSE GCD(b, a % b)

Rat(n, d) ==
    IF d = 0 THEN [num |-> 0, den |-> 0]
    ELSE LET g == GCD(Abs(n), Abs(d))
             sgn == IF d < 0 THEN -1 ELSE 1
         IN  [num |-> sgn * (n \div g), den |-> sgn * (d \div g)]

RatAdd(a, b) == Rat(a.num * b.den + b.num * a.den, a.den * b.den)

RECURSIVE RatSum(_)
RatSum(q) == IF q = <<>> THEN Rat(0, 1) ELSE RatAdd(q[1], RatSum(Tail(q)))

\* numpy.mean
Mean(q) ==
    IF q = <<>> THEN Rat(0, 0)
    ELSE LET t == RatSum(q) IN Rat(t.num, t.den * Len(q))

(***************************************************************************)
(* A Python dict: the sequence of its <<key, value>> items in insertion    *)
(* order.                                                                  *)
(***************************************************************************)
DictHas(d, k) == \E i \in 1..Len(d) : d[i][1] = k
DictGet(d, k) == d[CHOOSE i \in 1..Len(d) : d[i][1] = k][2]
DictPut(d, k, v) ==
    IF DictHas(d, k)
    THEN [i \in 1..Len(d) |-> IF d[i][1] = k THEN <<k, v>> ELSE d[i]]
    ELSE Append(d, <<k, v>>)

(***************************************************************************)
(* Serialization helpers of gtfs_sequence.py.  A datetime is a number of   *)
(* seconds into one day; its ISO form is the <<hours, minutes, seconds>>   *)
(* the string spells out.                                                  *)
(***************************************************************************)
deserialize_coord(values) == Point(values[1], values[2])
serialize_coord(coord) == <<coord.x, coord.y>>

serialize_trip_time(trip_time) ==
    <<trip_time \div 3600, (trip_time \div 60) % 60, trip_time % 60>>
deserialize_trip_time(trip_time) ==
    trip_time[1] * 3600 + trip_time[2] * 60 + trip_time[3]

serialize_trip_times(trip_times) ==
    [i \in 1..Len(trip_times) |-> serialize_trip_time(trip_times[i])]
deserialize_trip_times(trip_times) ==
    [i \in 1..Len(trip_times) |-> deserialize_trip_time(trip_times[i])]

serialize_trip_times_dict(d) ==
    [i \in 1..Len(d) |-> <<d[i][1], serialize_trip_times(d[i][2])>>]
deserialize_trip_times_dict(d) ==
    [i \in 1..Len(d) |-> <<d[i][1], deserialize_trip_times(d[i][2])>>]

get_stop_coord(stops_df, stop_id) == Point(stops_df[stop_id], 0)

snap_coord(coord, geometry) ==
    PointOfCoord(Interpolate(geometry, Project(geometry, serialize_coord(coord))))

\* int() of a value that is an integer already.
IntOf(v) == v

SeqToSet(q) == {q[i] : i \in 1..Len(q)}

(***************************************************************************)
(* class Sequence.  The object is a record of its fields; attrs holds the  *)
(* names of the two attributes that __init__ does not create and that      *)
(* exist only once a method has assigned them.                             *)
(***************************************************************************)
get_most_common(trip_ids, trips_df, column) ==
    most_common([i \in 1..Len(trip_ids) |-> trips_df[trip_ids[i]][column]])

Columns == <<"direction_id", "route_id", "service_id", "shape_id", "trip_headsign">>

\* set_attributes succeeds iff every vote does.
AttributesOk(trip_ids, trips_df) ==
    \A i \in 1..Len(Columns) :
        get_most_common(trip_ids, trips_df, Columns[i]).kind = "return"

NewSequence(stop_ids, trip_ids, trips_df) ==
    [direction_id |-> get_most_common(trip_ids, trips_df, "direction_id").val,
     route_id |-> get_most_common(trip_ids, trips_df, "route_id").val,
     service_id |-> get_most_common(trip_ids, trips_df, "service_id").val,
     shape_id |-> get_most_common(trip_ids, trips_df, "shape_id").val,
     trip_headsign |-> get_most_common(trip_ids, trips_df, "trip_headsign").val,
     stop_ids |-> stop_ids,
     trip_ids |-> trip_ids,
     stop_coords |-> <<>>,
     stop_distances |-> <<>>,
     trip_durations_dict |-> <<>>,
     trip_speeds_dict |-> <<>>,
     trip_times_dict |-> <<>>,
     length |-> Len(stop_ids),
     trip_ids_set |-> SeqToSet(trip_ids),
     route_geometry |-> <<>>,
     stop_speeds |-> <<>>,
     attrs |-> {}]

to_dict(self) ==
    [direction_id |-> IntOf(self.direction_id),
     route_id |-> self.route_id,
     service_id |-> self.trip_headsign,
     shape_id |-> self.shape_id,
     stop_coords |-> [i \in 1..Len(self.stop_coords) |->
                         serialize_coord(self.stop_coords[i])],
     stop_distances |-> self.stop_distances,
     stop_ids |-> [i \in 1..Len(self.stop_ids) |-> IntOf(self.stop_ids[i])],
     trip_headsign |-> self.trip_headsign,
     trip_ids |-> self.trip_ids,
     trip_durations_dict |-> self.trip_durations_dict,
     trip_speeds_dict |-> self.trip_speeds_dict,
     trip_times_dict |-> serialize_trip_times_dict(self.trip_times_dict)]

LoadSequence(load_dict) ==
    [direction_id |-> load_dict.direction_id,
     route_id |-> load_dict.route_id,
     service_id |-> load_dict.service_id,
     shape_id |-> load_dict.shape_id,
     stop_distances |-> load_dict.stop_distances,
     stop_ids |-> load_dict.stop_ids,
     trip_durations_dict |-> load_dict.trip_durations_dict,
     trip_headsign |-> load_dict.trip_headsign,
     trip_ids |-> load_dict.trip_ids,
     trip_speeds_dict |-> load_dict.trip_speeds_dict,
     stop_coords |-> [i \in 1..Len(load_dict.stop_coords) |->
                         deserialize_coord(load_dict.stop_coords[i])],
     trip_times_dict |-> deserialize_trip_times_dict(load_dict.trip_times_dict),
     length |-> Len(load_dict.stop_ids),
     trip_ids_set |-> SeqToSet(load_dict.trip_ids),
     route_geometry |-> <<>>,
     stop_speeds |-> <<>>,
     attrs |-> {}]

\* A geometry cell of the routes table that holds None.  Until a method
\* assigns route_geometry the field of the record holds the same
\* placeholder, and attrs tells the two apart.
NoGeometry == <<>>

get_route_dir(self) == self.route_id \o "_" \o ToString(self.direction_id)

\* The outcome of a method: the object as the method leaves it, and what the
\* method returned or raised.
Outcome(obj, result) == [self |-> obj, ret |-> result]

MatchingRows(self, routes_gdf) ==
    SelectSeq(routes_gdf, LAMBDA row : row.route_dir = get_route_dir(self))

\* Mutant: of several matching rows the first is assigned.
assign_route_geometry_first(self, routes_gdf) ==
    LET matching_rows == MatchingRows(self, routes_gdf)
    IN  IF Len(matching_rows) = 0 THEN Outcome(self, Returned(FALSE))
        ELSE Outcome([self EXCEPT !.route_geometry = matching_rows[1].geometry,
                                  !.attrs = @ \cup {"route_geometry"}],
                     Returned(TRUE))

assign_route_geometry(self, routes_gdf) ==
    LET matching_rows == MatchingRows(self, routes_gdf)
    IN  IF Len(matching_rows) = 0 THEN Outcome(self, Returned(FALSE))
        ELSE IF Len(matching_rows) > 1
             THEN Outcome(self, Raised("Exception: Multiple route geometries matched"))
             ELSE Outcome([self EXCEPT !.route_geometry = matching_rows[1].geometry,
                                       !.attrs = @ \cup {"route_geometry"}],
                          Returned(TRUE))

assign_stop_coords(self, stops_df) ==
    IF "route_geometry" \notin self.attrs
    THEN Outcome(self, Raised("AttributeError"))
    ELSE IF self.route_geometry = NoGeometry
    THEN Outcome(self, Raised("Exception: Route geometry must be assigned"))
    ELSE Outcome([self EXCEPT !.stop_coords =
                     [i \in 1..Len(self.stop_ids) |->
                         snap_coord(get_stop_coord(stops_df, self.stop_ids[i]),
                                    self.route_geometry)]],
                 NoneValue)

\* Mutant: each distance is added to the one before it.
RECURSIVE StopDistancesLoopCumulative(_, _)
StopDistancesLoopCumulative(self, i) ==
    IF i > self.length - 1 THEN Outcome(self, NoneValue)
    ELSE IF i + 1 > Len(self.stop_coords)
         THEN Outcome(self, Raised("IndexError"))
         ELSE StopDistancesLoopCumulative(
                [self EXCEPT !.stop_distances = Append(@,
                    Last(@) + PointDistance(self.stop_coords[i], self.stop_coords[i + 1])
                        * DEG_TO_M)],
                i + 1)

\* The loop of calculate_stop_distances from index i (1-based) on.
RECURSIVE StopDistancesLoop(_, _)
StopDistancesLoop(self, i) ==
    IF i > self.length - 1 THEN Outcome(self, NoneValue)
    ELSE IF i + 1 > Len(self.stop_coords)
         THEN Outcome(self, Raised("IndexError"))
         ELSE StopDistancesLoop(
                [self EXCEPT !.stop_distances = Append(@,
                    PointDistance(self.stop_coords[i], self.stop_coords[i + 1])
                        * DEG_TO_M)],
                i + 1)

calculate_stop_distances(self) ==
    StopDistancesLoop([self EXCEPT !.stop_distances = <<0>>], 1)

\* The inner loop of calculate_trip_durations: the list built so far.
RECURSIVE DurationsOfTrip(_, _, _, _)
DurationsOfTrip(trip_times, length, i, acc) ==
    IF i > length - 1 THEN Returned(acc)
    ELSE IF i + 1 > Len(trip_times) THEN [kind |-> "raise", val |-> acc]
         ELSE DurationsOfTrip(trip_times, length, i + 1,
                              Append(acc, trip_times[i + 1] - trip_times[i]))

RECURSIVE TripDurationsLoop(_, _)
TripDurationsLoop(self, k) ==
    IF k > Len(self.trip_times_dict) THEN Outcome(self, NoneValue)
    ELSE LET trip_id == self.trip_times_dict[k][1]
             r == DurationsOfTrip(self.trip_times_dict[k][2], self.length, 1, <<0>>)
             next == [self EXCEPT !.trip_durations_dict = DictPut(@, trip_id, r.val)]
         IN  IF r.kind = "raise" THEN Outcome(next, Raised("IndexError"))
             ELSE TripDurationsLoop(next, k + 1)

calculate_trip_durations(self) ==
    TripDurationsLoop([self EXCEPT !.trip_durations_dict = <<>>], 1)

\* The inner loop of calculate_trip_speeds: [list built so far, error].
RECURSIVE SpeedsOfTrip(_, _, _, _, _)
SpeedsOfTrip(stop_distances, durations, length, i, acc) ==
    IF i > length THEN [val |-> acc, err |-> ""]
    ELSE IF i > Len(stop_distances) \/ i > Len(durations)
         THEN [val |-> acc, err |-> "IndexError"]
         ELSE IF durations[i] = 0
              THEN [val |-> acc, err |-> "ZeroDivisionError"]
              ELSE SpeedsOfTrip(stop_distances, durations, length, i + 1,
                                Append(acc, Rat(stop_distances[i], durations[i])))

RECURSIVE TripSpeedsLoop(_, _)
TripSpeedsLoop(self, k) ==
    IF k > Len(self.trip_times_dict) THEN Outcome(self, NoneValue)
    ELSE LET trip_id == self.trip_times_dict[k][1]
             started == [self EXCEPT !.trip_speeds_dict =
                            DictPut(@, trip_id, <<Rat(0, 1)>>)]
         IN  IF self.length >= 2 /\ ~DictHas(self.trip_durations_dict, trip_id)
             THEN IF 2 > Len(self.stop_distances)
                  THEN Outcome(started, Raised("IndexError"))
                  ELSE Outcome(started, Raised("KeyError"))
             ELSE LET r == SpeedsOfTrip(self.stop_distances,
                                        IF self.length >= 2
                                            THEN DictGet(self.trip_durations_dict, trip_id)
                                            ELSE <<>>,
                                        self.length, 2, <<Rat(0, 1)>>)
                      next == [self EXCEPT !.trip_speeds_dict =
                                   DictPut(@, trip_id, r.val)]
                  IN  IF r.err # "" THEN Outcome(next, Raised(r.err))
                      ELSE TripSpeedsLoop(next, k + 1)

calculate_trip_speeds(self) ==
    LET d == IF self.stop_distances = <<>>
                 THEN calculate_stop_distances(self)
                 ELSE Outcome(self, NoneValue)
    IN  IF d.ret.kind = "raise" THEN d
        ELSE LET t == IF d.self.trip_durations_dict = <<>>
                          THEN calculate_trip_durations(d.self)
                          ELSE Outcome(d.self, NoneValue)
             IN  IF t.ret.kind = "raise" THEN t
                 ELSE TripSpeedsLoop([t.self EXCEPT !.trip_speeds_dict = <<>>], 1)

\* The speeds gathered for stop index i: one per trip whose list reaches i.
SpeedsAtStop(self, i) ==
    LET having == SelectSeq(self.trip_speeds_dict, LAMBDA item : Len(item[2]) >= i)
    IN  [k \in 1..Len(having) |-> having[k][2][i]]

aggregate_speeds(self) ==
    IF \E k \in 1..Len(self.trip_speeds_dict) :
           Len(self.trip_speeds_dict[k][2]) > self.length
    THEN Outcome(self, Raised("IndexError"))
    ELSE Outcome([self EXCEPT !.stop_speeds =
                      [i \in 1..self.length |-> Mean(SpeedsAtStop(self, i))],
                  !.attrs = @ \cup {"stop_speeds"}],
                 NoneValue)

get_speeds_gdf(self) ==
    IF ~(self.length > 0) THEN Outcome(self, Raised("AssertionError"))
    ELSE IF "route_geometry" \notin self.attrs
    THEN Outcome(self, Raised("AttributeError"))
    ELSE IF self.route_geometry = NoGeometry
    THEN Outcome(self, Raised("AssertionError"))
    ELSE IF "stop_speeds" \notin self.attrs
    THEN Outcome(self, Raised("AttributeError"))
    ELSE LET speeds_gdf == segment_by_distances(self.route_geometry,
                                                self.stop_distances, self.stop_speeds)
         IN  IF speeds_gdf.kind # "return" THEN Outcome(self, speeds_gdf)
             ELSE Outcome(self, Returned(
                    [geometry |-> speeds_gdf.val.geometry,
                     start_value |-> speeds_gdf.val.start_value,
                     end_value |-> speeds_gdf.val.end_value,
                     route_id |-> self.route_id,
                     direction_id |-> self.direction_id]))

\* cut(...)[0] and cut(...)[-1]: indexing what cut returned.
CutItem(r, first) ==
    IF r.kind = "None" THEN Raised("TypeError")
    ELSE IF r.kind = "raise" THEN r
    ELSE Returned(IF first THEN r.val[1] ELSE Last(r.val))

trim_route_geometry(self) ==
    IF ~(self.length > 0) THEN Outcome(self, Raised("AssertionError"))
    ELSE IF "route_geometry" \notin self.attrs
    THEN Outcome(self, Raised("AttributeError"))
    ELSE IF self.route_geometry = NoGeometry
    THEN Outcome(self, Raised("AssertionError"))
    ELSE IF self.stop_coords = <<>> THEN Outcome(self, Raised("IndexError"))
    ELSE LET g0 == self.route_geometry
             c1 == CutItem(cut(g0, Project(g0, serialize_coord(Last(self.stop_coords)))),
                           TRUE)
         IN  IF c1.kind = "raise" THEN Outcome(self, c1)
             ELSE LET g1 == c1.val
                      c2 == CutItem(cut(g1, Project(g1,
                                        serialize_coord(self.stop_coords[1]))), FALSE)
                  IN  IF c2.kind = "raise" THEN Outcome(self, c2)
                      ELSE Outcome([self EXCEPT !.route_geometry = c2.val], NoneValue)

(***************************************************************************)
(* Input sets.                                                             *)
(***************************************************************************)
Xs == 0..MaxX
Coords == {<<x, 0>> : x \in Xs}
SeqsOf(S, lo, hi) == UNION {[1..n -> S] : n \in lo..hi}
Lines == SeqsOf(Coords, 2, MaxVerts)
MaxLength == MaxX * (MaxVerts - 1)
AttrValues == {"a", "b", "c"}
Offsets == {0, DEG_TO_M, 2 * DEG_TO_M}
ValuesOfLen(n) == [i \in 1..n |-> 3 + 2 * i]
StopIds == {1, 2}
TripIds == {"t1", "t2"}
TripRows ==
    {[direction_id |-> 0, route_id |-> "A", service_id |-> "weekday",
      shape_id |-> "s1", trip_headsign |-> "Uptown"],
     [direction_id |-> 1, route_id |-> "B", service_id |-> "sunday",
      shape_id |-> "s2", trip_headsign |-> "Downtown"]}
Times == {0, 3690}
Straight == <<<<0, 0>>, <<MaxX, 0>>>>
RouteGeoms ==
    {Straight,
     <<<<MaxX, 0>>, <<0, 0>>>>,
     <<<<1, 0>>, <<2, 0>>, <<3, 0>>>>,
     <<<<0, 0>>, <<3, 0>>, <<1, 0>>>>,
     NoGeometry}
RouteDirs == {"A_0", "B_1"}
GdfRows == [route_dir : RouteDirs, geometry : RouteGeoms]
MatchRows ==
    [route_dir : RouteDirs,
     geometry : {Straight, <<<<0, 0>>, <<3, 0>>, <<1, 0>>>>, NoGeometry}]
\* Curves that start at either end of the range of x.
SegmentLines == {line \in Lines : line[1][1] \in {0, MaxX}}
StraightGdfs == {<<[route_dir |-> d, geometry |-> Straight]>> : d \in RouteDirs}

VARIABLES call, ret, self

vars == <<call, ret, self>>

Pending == [kind |-> "pending", val |-> <<>>]

\* The pure functions are called without any Sequence.
NoObject == <<>>

(***************************************************************************)
(* A call of cut(line, distance) on its own.                               *)
(***************************************************************************)
InitCut ==
    /\ call \in [op : {"cut"}, line : Lines, distance : (-1)..(MaxLength + 1)]
    /\ ret = Pending
    /\ self = NoObject

CallCut ==
    /\ call.op = "cut"
    /\ ret.kind = "pending"
    /\ ret' = cut(call.line, call.distance)
    /\ UNCHANGED <<call, self>>

SpecCut == InitCut /\ [][CallCut]_vars

(***************************************************************************)
(* A call of most_common(list) on its own.                                 *)
(***************************************************************************)
InitMostCommon ==
    /\ call \in [op : {"most_common"}, list : SeqsOf(AttrValues, 0, MaxList)]
    /\ ret = Pending
    /\ self = NoObject

CallMostCommon ==
    /\ call.op = "most_common"
    /\ ret.kind = "pending"
    /\ ret' = most_common(call.list)
    /\ UNCHANGED <<call, self>>

SpecMostCommon == InitMostCommon /\ [][CallMostCommon]_vars

(***************************************************************************)
(* A call of segment_by_distances(line, distances, values) on its own.     *)
(* The values are the first few of 5, 7, 9, ...: distinct, so that the     *)
(* pair a segment carries tells which entries it was built from.           *)
(***************************************************************************)
InitSegment ==
    /\ call \in [op : {"segment_by_distances"},
                 line : SegmentLines,
                 distances : SeqsOf(Offsets, 0, MaxOffsets),
                 values : {ValuesOfLen(n) : n \in 0..(MaxOffsets + 1)}]
    /\ ret = Pending
    /\ self = NoObject

CallSegment ==
    /\ call.op = "segment_by_distances"
    /\ ret.kind = "pending"
    /\ ret' = segment_by_distances(call.line, call.distances, call.values)
    /\ UNCHANGED <<call, self>>

SpecSegment == InitSegment /\ [][CallSegment]_vars

(***************************************************************************)
(* The Sequence object.  Init is the object as Sequence(stop_ids,          *)
(* trip_ids, trips_df) constructs it; each action is one method call.      *)
(***************************************************************************)
Constructed(StopLists, TripLists) ==
    /\ \E stop_ids \in StopLists, trip_ids \in TripLists,
          trips_df \in [TripIds -> TripRows] :
            /\ AttributesOk(trip_ids, trips_df)
            /\ self = NewSequence(stop_ids, trip_ids, trips_df)
    /\ call = [op |-> "__init__"]
    /\ ret = NoneValue

Method(op, outcome) ==
    /\ call' = [op |-> op]
    /\ self' = outcome.self
    /\ ret' = outcome.ret

AssignRouteGeometry(Gdfs) ==
    \E routes_gdf \in Gdfs :
        LET outcome == assign_route_geometry(self, routes_gdf)
        IN  /\ call' = [op |-> "assign_route_geometry", routes_gdf |-> routes_gdf]
            /\ self' = outcome.self
            /\ ret' = outcome.ret

AssignStopCoords ==
    \E stops_df \in [StopIds -> Xs] :
        Method("assign_stop_coords", assign_stop_coords(self, stops_df))

TrimRouteGeometry == Method("trim_route_geometry", trim_route_geometry(self))

CalculateStopDistances ==
    Method("calculate_stop_distances", calculate_stop_distances(self))

CalculateTripDurations ==
    Method("calculate_trip_durations", calculate_trip_durations(self))

CalculateTripSpeeds == Method("calculate_trip_speeds", calculate_trip_speeds(self))

AggregateSpeeds == Method("aggregate_speeds", aggregate_speeds(self))

GetSpeedsGdf == Method("get_speeds_gdf", get_speeds_gdf(self))

\* The caller files a trip's arrival times, one per stop of the sequence.
SetTripTimes ==
    \E trip_id \in self.trip_ids_set, trip_times \in [1..self.length -> Times] :
        /\ call' = [op |-> "set_trip_times"]
        /\ self' = [self EXCEPT !.trip_times_dict = DictPut(@, trip_id, trip_times)]
        /\ ret' = NoneValue

\* The sequence is saved and restored: Sequence(load_dict = self.to_dict()).
Reload ==
    /\ call' = [op |-> "reload"]
    /\ self' = LoadSequence(to_dict(self))
    /\ ret' = NoneValue

(***************************************************************************)
(* Matching the route geometry: routes tables of up to MaxRows rows.       *)
(***************************************************************************)
InitMatch == Constructed({<<1, 2>>}, {<<"t1">>})

NextMatch ==
    \/ AssignRouteGeometry(SeqsOf(MatchRows, 0, MaxRows))
    \/ Reload

SpecMatch == InitMatch /\ [][NextMatch]_vars

(***************************************************************************)
(* Snapping the stops onto the geometry and trimming it.                   *)
(***************************************************************************)
InitTrim == Constructed(SeqsOf(StopIds, 0, MaxTrimStops), {<<"t1">>})

NextTrim ==
    \/ AssignRouteGeometry(SeqsOf(GdfRows, 0, 1))
    \/ AssignStopCoords
    \/ TrimRouteGeometry
    \/ Reload

SpecTrim == InitTrim /\ [][NextTrim]_vars

(***************************************************************************)
(* Distances between the snapped stops.                                    *)
(***************************************************************************)
InitDistances == Constructed(SeqsOf(StopIds, 0, MaxStops), {<<"t1">>})

NextDistances ==
    \/ AssignRouteGeometry(StraightGdfs)
    \/ AssignStopCoords
    \/ CalculateStopDistances

SpecDistances == InitDistances /\ [][NextDistances]_vars

(***************************************************************************)
(* The timing pipeline and persistence.  The caller supplies the inputs    *)
(* (geometry, stops, trip times) before the first derived field is         *)
(* computed, and calls the computing methods in any order after that.      *)
(***************************************************************************)
InputsOpen ==
    /\ self.stop_distances = <<>>
    /\ self.trip_durations_dict = <<>>
    /\ self.trip_speeds_dict = <<>>
    /\ "stop_speeds" \notin self.attrs

InitTiming ==
    Constructed(SeqsOf(StopIds, 0, MaxTimedStops), {<<"t1">>, <<"t1", "t2">>})

NextTiming ==
    \/ InputsOpen /\ AssignRouteGeometry(StraightGdfs)
    \/ InputsOpen /\ AssignStopCoords
    \/ InputsOpen /\ SetTripTimes
    \/ CalculateStopDistances
    \/ CalculateTripDurations
    \/ CalculateTripSpeeds
    \/ AggregateSpeeds
    \/ GetSpeedsGdf
    \/ Reload

SpecTiming == InitTiming /\ [][NextTiming]_vars

(***************************************************************************)
(* Two curves trace the same path: same length, same position at every     *)
(* arc length (vertices are integral, so integral arc lengths decide it).  *)
(***************************************************************************)
SamePath(l1, l2) ==
    /\ LineLength(l1) = LineLength(l2)
    /\ \A s \in 0..LineLength(l1) : Interpolate(l1, s) = Interpolate(l2, s)

CutSplits ==
    /\ call.op = "cut"
    /\ ret.kind # "pending"
    /\ 0 < call.distance
    /\ call.distance < LineLength(call.line)

\* C2: for 0 < d < length(curve), cut returns a pair [before, after] where
\* before ends where after starts, before followed by after traverses the
\* original curve, and the two lengths sum to the original length; for
\* every vertex layout, curves that revisit earlier positions included.
C2_CutReproducesCurve ==
    CutSplits =>
        /\ ret.kind = "return"
        /\ Len(ret.val) = 2
        /\ Last(ret.val[1]) = ret.val[2][1]
        /\ SamePath(ret.val[1] \o Tail(ret.val[2]), call.line)
        /\ LineLength(ret.val[1]) + LineLength(ret.val[2]) = LineLength(call.line)

MostCommonCalled ==
    /\ call.op = "most_common"
    /\ ret.kind # "pending"
    /\ call.list # <<>>

MaxCount(list) ==
    CHOOSE m \in 1..Len(list) :
        /\ \E i \in 1..Len(list) : Count(list, list[i]) = m
        /\ \A i \in 1..Len(list) : Count(list, list[i]) <= m

FirstIndex(list, v) == CHOOSE i \in 1..Len(list) :
    list[i] = v /\ \A j \in 1..(i - 1) : list[j] # v

\* The position at which the scan of the list first sees some value for the
\* MaxCount-th time.
FirstToReachMax(list) ==
    CHOOSE p \in 1..Len(list) :
        /\ Count(SubSeq(list, 1, p), list[p]) = MaxCount(list)
        /\ \A q \in 1..(p - 1) :
               Count(SubSeq(list, 1, q), list[q]) # MaxCount(list)

\* C4 as stated: the reconciled value has maximal count and, among values of
\* maximal count, is the one that first reaches that count in input order.
C4_FirstToReachMaxCount ==
    MostCommonCalled =>
        /\ ret.kind = "return"
        /\ Count(call.list, ret.val) = MaxCount(call.list)
        /\ ret.val = call.list[FirstToReachMax(call.list)]

\* C4 amended: the reconciled value has maximal count and, among values of
\* maximal count, is the one whose first occurrence is earliest in input
\* order.
C4_EarliestFirstOccurrence ==
    MostCommonCalled =>
        /\ ret.kind = "return"
        /\ Count(call.list, ret.val) = MaxCount(call.list)
        /\ \A i \in 1..Len(call.list) :
               Count(call.list, call.list[i]) = MaxCount(call.list)
                   => FirstIndex(call.list, ret.val) <= i

\* A tie of two values in which the one seen first is not the first to
\* reach the maximal count.
C4_Witness ==
    /\ MostCommonCalled
    /\ ret.kind = "return"
    /\ \E v \in AttrValues :
           /\ v # ret.val
           /\ Count(call.list, v) = MaxCount(call.list)
    /\ call.list[FirstToReachMax(call.list)] # ret.val

SegmentCalled ==
    /\ call.op = "segment_by_distances"
    /\ ret.kind # "pending"

\* C5: with len(values) # len(distances) the call ends in an error (any
\* exception is accepted as the mismatch error here); it never returns
\* having skipped the value pairs.
C5_MismatchIsAnError ==
    (SegmentCalled /\ Len(call.values) # Len(call.distances))
        => ret.kind = "raise"

RECURSIVE SumSeq(_)
SumSeq(q) == IF q = <<>> THEN 0 ELSE q[1] + SumSeq(Tail(q))

RECURSIVE Concat(_)
Concat(lines) ==
    IF Len(lines) = 1 THEN lines[1]
    ELSE lines[1] \o Tail(Concat(Tail(lines)))

RECURSIVE Joined(_)
Joined(lines) ==
    Len(lines) <= 1 \/ (Last(lines[1]) = lines[2][1] /\ Joined(Tail(lines)))

\* No vertex of the line projects before its own arc length: the line
\* never comes back to a position it has left.
NeverRevisits(line) ==
    \A i \in 1..Len(line) : Project(line, line[i]) = VertexArc(line, i)

\* n >= 2 increasing offsets starting at 0, n values, and a curve long
\* enough for every cut to fall strictly inside what remains of it.
SegmentRegular ==
    /\ SegmentCalled
    /\ Len(call.distances) >= 2
    /\ Len(call.values) = Len(call.distances)
    /\ call.distances[1] = 0
    /\ \A i \in 2..Len(call.distances) : call.distances[i - 1] < call.distances[i]
    /\ SumSeq(call.distances) \div DEG_TO_M < LineLength(call.line)

CarriesPairs(frame, values) ==
    \A i \in 2..Len(values) :
        /\ frame.start_value[i - 1] = values[i - 1]
        /\ frame.end_value[i - 1] = values[i]

Ok == ret.kind # "raise"

ConvertedLeg(coords, i) == PointDistance(coords[i - 1], coords[i]) * DEG_TO_M

DistancesCalculated ==
    /\ call.op = "calculate_stop_distances"
    /\ Ok
    /\ Len(self.stop_coords) = self.length

\* C1 as stated: stop_distances is cumulative: it starts at 0, each entry
\* is the one before plus the converted distance between the two snapped
\* stops, and so the list never decreases.
C1_CumulativeDistances ==
    DistancesCalculated =>
        /\ self.stop_distances[1] = 0
        /\ \A i \in 2..self.length :
               /\ self.stop_distances[i] =
                      self.stop_distances[i - 1] + ConvertedLeg(self.stop_coords, i)
               /\ self.stop_distances[i - 1] <= self.stop_distances[i]

\* C1 amended: stop_distances starts at 0 and each later entry is the
\* converted distance between snapped stop i-1 and snapped stop i alone (the
\* length of that leg, not a running total); every entry is >= 0, and the
\* list has one entry per stop (one entry, the 0, for no stops).
C1_LegDistances ==
    DistancesCalculated =>
        /\ Len(self.stop_distances) = Max(self.length, 1)
        /\ self.stop_distances[1] = 0
        /\ \A i \in 2..self.length :
               /\ self.stop_distances[i] = ConvertedLeg(self.stop_coords, i)
               /\ self.stop_distances[i] >= 0

\* Three stops whose second leg is shorter than the first: the list falls.
C1_Witness ==
    /\ DistancesCalculated
    /\ self.length = 3
    /\ self.stop_distances[2] > 0
    /\ self.stop_distances[3] < self.stop_distances[2]

PersistedFields ==
    {"direction_id", "route_id", "service_id", "shape_id", "trip_headsign",
     "stop_ids", "trip_ids", "stop_coords", "stop_distances",
     "trip_durations_dict", "trip_speeds_dict", "trip_times_dict"}

\* C3: Sequence(load_dict = s.to_dict()) has every persisted field equal to
\* that of s.
C3_RoundTrip ==
    [][call'.op = "reload" => \A f \in PersistedFields : self'[f] = self[f]]_vars

AllLists(d, n) == \A k \in 1..Len(d) : Len(d[k][2]) = n

\* C6: after a method that completed, the array it computes has exactly
\* len(stop_ids) elements, for every stop count N >= 0.
C6_LengthsMatchStops ==
    LET N == Len(self.stop_ids)
    IN  /\ (call.op = "assign_stop_coords" /\ Ok) => Len(self.stop_coords) = N
        /\ (call.op = "calculate_stop_distances" /\ Ok)
               => Len(self.stop_distances) = N
        /\ (call.op = "calculate_trip_durations" /\ Ok)
               => AllLists(self.trip_durations_dict, N)
        /\ (call.op = "calculate_trip_speeds" /\ Ok)
               => AllLists(self.trip_speeds_dict, N)
        /\ (call.op = "aggregate_speeds" /\ Ok) => Len(self.stop_speeds) = N

GeometryAssigned(obj) ==
    "route_geometry" \in obj.attrs /\ obj.route_geometry # NoGeometry

\* C7: assign_stop_coords on a sequence with no route geometry assigned
\* fails with the explicit precondition error and leaves stop_coords alone.
C7_PreconditionError ==
    [][(call'.op = "assign_stop_coords" /\ "route_geometry" \notin self.attrs)
          => /\ ret'.kind = "raise"
             /\ ret'.val = "Exception: Route geometry must be assigned"
             /\ self'.stop_coords = self.stop_coords]_vars

MatchingIndexes(obj, routes_gdf) ==
    {i \in 1..Len(routes_gdf) :
        routes_gdf[i].route_dir = obj.route_id \o "_" \o ToString(obj.direction_id)}

\* C8: with k candidates keyed route_id + "_" + direction_id,
\* assign_route_geometry returns False and assigns nothing for k = 0,
\* assigns that candidate's geometry and returns True for k = 1, and for
\* k >= 2 raises the ambiguous-match error leaving the geometry as it was.
C8_MatchByCandidateCount ==
    [][call'.op = "assign_route_geometry" =>
          LET hits == MatchingIndexes(self, call'.routes_gdf)
              k == Cardinality(hits)
          IN  /\ k = 0 => /\ ret'.kind = "return"
                          /\ ret'.val = FALSE
                          /\ self' = self
              /\ k = 1 => /\ ret'.kind = "return"
                          /\ ret'.val = TRUE
                          /\ "route_geometry" \in self'.attrs
                          /\ \A i \in hits :
                                 self'.route_geometry = call'.routes_gdf[i].geometry
              /\ k >= 2 => /\ ret'.kind = "raise"
                           /\ ret'.val = "Exception: Multiple route geometries matched"
                           /\ self' = self]_vars

\* Two candidates share the key of a sequence that already has a geometry:
\* the call raised and the geometry is still there.
C8_Witness ==
    /\ call.op = "assign_route_geometry"
    /\ Cardinality(MatchingIndexes(self, call.routes_gdf)) >= 2
    /\ ret.kind = "raise"
    /\ GeometryAssigned(self)

\* Every stop coordinate lies on the geometry: snapping it again moves nothing.
Snapped(obj) ==
    /\ Len(obj.stop_coords) = obj.length
    /\ \A i \in 1..Len(obj.stop_coords) :
           snap_coord(obj.stop_coords[i], obj.route_geometry) = obj.stop_coords[i]

\* C10: after trim_route_geometry on a sequence with at least one stop, an
\* assigned geometry and snapped stops, the geometry starts at the first
\* stop's snapped position and ends at the last stop's, wherever the two
\* stops lie along it.
C10_TrimmedToEndStops ==
    [][(/\ call'.op = "trim_route_geometry"
        /\ self.length >= 1
        /\ GeometryAssigned(self)
        /\ Snapped(self))
          => /\ ret'.kind # "raise"
             /\ self'.route_geometry[1] = serialize_coord(self.stop_coords[1])
             /\ Last(self'.route_geometry) = serialize_coord(Last(self.stop_coords))]_vars

====
